---- MODULE Spec2Model ----
(***************************************************************************)
(* fastlem: the flow-routing / lake-resolution / equilibrium-solver core.   *)
(*                                                                         *)
(*   lem/stream_tree.rs     StreamTree::construct                          *)
(*   lem/drainage_basin.rs  DrainageBasin::construct                       *)
(*   lem/generator.rs       TerrainGenerator (builder and generate)        *)
(*                                                                         *)
(* Sites are indexed 0..num-1 as in the source.  Floating point values are  *)
(* fixed-point integers: an elevation, a response time or a tangent x is    *)
(* the integer x * Resolution.  Distances, cell areas, erodibilities and    *)
(* uplift rates are integers.  Slopes are compared as exact fractions.      *)
(***************************************************************************)
EXTENDS Integers, Sequences, FiniteSets, Bags, TLC

VARIABLES
    model,           \* TerrainGenerator.model: None or a model record
    parameters,      \* TerrainGenerator.parameters: None or a sequence-like function
    max_iteration,   \* TerrainGenerator.max_iteration: None or a Step
    pc,              \* position inside generate
    result,          \* what generate returned: None, Err(e) or Ok(terrain)
    outlets,         \* generate: the resolved outlet list
    elevations,      \* generate: the elevation field
    step,            \* generate: the step counter
    changed,         \* generate: the changed flag of the running iteration
    next,            \* the flow assignment of the running iteration
    subroot,         \* StreamTree: root of each site before lake removal
    root,            \* remove_lakes_from_stream_tree: final roots
    ridgestack,      \* remove_lakes_from_stream_tree: the binary heap's content
    visited,         \* remove_lakes_from_stream_tree: expanded sites
    drainage_areas,  \* generate: scratch array of the iteration
    response_times,  \* generate: scratch array of the iteration
    oi,              \* generate: position in outlets.iter()
    traversals,      \* the DrainageBasin traversals built in the running iteration
    initial,         \* history: the elevation field before the first iteration
    iterations,      \* history: number of loop bodies executed
    carved,          \* history: whether the running iteration removed lakes
    fields,          \* history: the elevations at the head of each iteration
    stop             \* history: which break left the loop

vars == << model, parameters, max_iteration, pc, result, outlets, elevations,
           step, changed, next, subroot, root, ridgestack, visited,
           drainage_areas, response_times, oi, traversals, initial,
           iterations, carved, fields, stop >>

\* Option<T>: None, Some(x)
None == << >>
Some(x) == << x >>
unwrap(o) == o[1]

(***************************************************************************)
(* Bounds of the model.                                                    *)
(***************************************************************************)
\* fixed-point resolution: 1.0 is Resolution units
Resolution == 100
\* the elevation fields of TreeSpec take the values 0 .. MaxAlt
MaxAlt == 3
\* set_max_iteration is called with 0 .. MaxIteration
MaxIteration == 2
\* the loop body is explored up to this many iterations
MaxLoop == 6

(***************************************************************************)
(* Program constants.                                                      *)
(***************************************************************************)
\* DEFAULT_M_EXP = 0.5, as the pair numerator / denominator
DEFAULT_M_EXP_NUM == 1
DEFAULT_M_EXP_DEN == 2

(***************************************************************************)
(* Helpers on 0-based vectors.                                             *)
(***************************************************************************)
SeqSet(s) == { s[x] : x \in 1..Len(s) }
Max(a, b) == IF a >= b THEN a ELSE b

(***************************************************************************)
(* The graph (terrain_graph's EdgeAttributedUndirectedGraph<Length>) is a   *)
(* function from each site to its adjacency list, a sequence of             *)
(* <<neighbour, distance>> pairs in neighbors_of's order.                   *)
(***************************************************************************)
Sites(graph) == DOMAIN graph
neighbors_of(graph, i) == graph[i]

\* graph.has_edge(i, j): <<ok, edge>>
has_edge(graph, i, j) ==
    LET hits == { n \in 1..Len(graph[i]) : graph[i][n][1] = j }
    IN  IF hits = {} THEN << FALSE, 0 >>
        ELSE << TRUE, graph[i][CHOOSE n \in hits : TRUE][2] >>

(***************************************************************************)
(* StreamTree::create_outlet_table                                         *)
(***************************************************************************)
create_outlet_table(sites, outs) == [ i \in sites |-> i \in SeqSet(outs) ]

(***************************************************************************)
(* StreamTree::construct_initial_stream_tree.  The closure over the         *)
(* neighbours of i keeps steepest_slope as the fraction sn / sd.            *)
(***************************************************************************)
\* a scan that compares the drops and leaves the distances out
RECURSIVE GreatestDropScan(_, _, _, _, _, _, _)
GreatestDropScan(altitudes, adj, i, n, sn, sd, nx) ==
    IF n > Len(adj) THEN nx
    ELSE LET j == adj[n][1]
             steeper == /\ altitudes[i] > altitudes[j]
                        /\ altitudes[i] - altitudes[j] > sn
         IN  IF steeper
             THEN GreatestDropScan(altitudes, adj, i, n + 1,
                                   altitudes[i] - altitudes[j], 1, j)
             ELSE GreatestDropScan(altitudes, adj, i, n + 1, sn, sd, nx)

RECURSIVE SteepestScan(_, _, _, _, _, _, _)
SteepestScan(altitudes, adj, i, n, sn, sd, nx) ==
    IF n > Len(adj) THEN nx
    ELSE LET j == adj[n][1]
             distance == adj[n][2]
             steeper == /\ altitudes[i] > altitudes[j]
                        /\ (altitudes[i] - altitudes[j]) * sd > sn * distance
         IN  IF steeper
             THEN SteepestScan(altitudes, adj, i, n + 1,
                               altitudes[i] - altitudes[j], distance, j)
             ELSE SteepestScan(altitudes, adj, i, n + 1, sn, sd, nx)

construct_initial_stream_tree(altitudes, graph, is_outlet) ==
    [ i \in Sites(graph) |->
        IF is_outlet[i] THEN i
        ELSE SteepestScan(altitudes, neighbors_of(graph, i), i, 1, 0, 1, i) ]

(***************************************************************************)
(* StreamTree::find_roots_with_lakes.  The state of the outer for_each is   *)
(* [subroot, has_lake].                                                     *)
(***************************************************************************)
RECURSIVE WalkToRoot(_, _, _)
WalkToRoot(sr, nx, iv) ==
    IF sr[iv] = None /\ iv # nx[iv] THEN WalkToRoot(sr, nx, nx[iv]) ELSE iv

RECURSIVE MarkPath(_, _, _, _)
MarkPath(sr, nx, iv, ir) ==
    IF sr[iv] = None /\ iv # nx[iv]
    THEN MarkPath([sr EXCEPT ![iv] = ir], nx, nx[iv], ir)
    ELSE [sr EXCEPT ![iv] = ir]

\* a search whose has_lake is that of the last walk only
RECURSIVE FindRootsLastWalk(_, _, _, _)
FindRootsLastWalk(st, nx, i, num) ==
    IF i >= num THEN st
    ELSE IF st.subroot[i] # None THEN FindRootsLastWalk(st, nx, i + 1, num)
    ELSE LET iv == WalkToRoot(st.subroot, nx, i)
             lake == st.subroot[iv] = None
             ir == IF lake THEN Some(iv) ELSE st.subroot[iv]
         IN  FindRootsLastWalk([ subroot |-> MarkPath(st.subroot, nx, i, ir),
                                 has_lake |-> lake ],
                               nx, i + 1, num)

RECURSIVE FindRootsFrom(_, _, _, _)
FindRootsFrom(st, nx, i, num) ==
    IF i >= num THEN st
    ELSE IF st.subroot[i] # None THEN FindRootsFrom(st, nx, i + 1, num)
    ELSE LET iv == WalkToRoot(st.subroot, nx, i)
             lake == st.subroot[iv] = None
             ir == IF lake THEN Some(iv) ELSE st.subroot[iv]
         IN  FindRootsFrom([ subroot |-> MarkPath(st.subroot, nx, i, ir),
                             has_lake |-> st.has_lake \/ lake ],
                           nx, i + 1, num)

find_roots_with_lakes(num, is_outlet, nx) ==
    LET st == FindRootsFrom([ subroot |-> [ i \in 0..(num - 1) |->
                                  IF is_outlet[i] THEN Some(i) ELSE None ],
                              has_lake |-> FALSE ],
                            nx, 0, num)
    IN  << [ i \in 0..(num - 1) |-> unwrap(st.subroot[i]) ], st.has_lake >>

(***************************************************************************)
(* StreamTree::remove_lakes_from_stream_tree.                              *)
(* RidgeElement is [index, diff].  Ord for RidgeElement compares            *)
(* other.diff with self.diff, so the greatest element of the BinaryHeap,    *)
(* the one pop returns, is one of least diff.  The order among elements of  *)
(* equal diff is not decided by this code: any of them may be popped.  The  *)
(* heap is the bag of its elements.                                         *)
(***************************************************************************)
RidgeElement(index, diff) == [ index |-> index, diff |-> diff ]

\* a cmp that compares self.diff with other.diff
RidgeCmpNatural(a, b) ==
    IF a.diff < b.diff THEN "Less"
    ELSE IF a.diff > b.diff THEN "Greater" ELSE "Equal"

\* cmp(a, b) for RidgeElement: "Less", "Equal" or "Greater"
RidgeCmp(a, b) ==
    IF b.diff < a.diff THEN "Less"
    ELSE IF b.diff > a.diff THEN "Greater" ELSE "Equal"

\* BinaryHeap::push
heap_push(heap, e) == heap (+) SetToBag({ e })

\* the elements BinaryHeap::pop may return: the greatest ones
PopCandidates(heap) ==
    { e \in BagToSet(heap) :
        \A o \in BagToSet(heap) : RidgeCmp(e, o) # "Less" }

\* the heap after pop returned e
heap_remove(heap, e) == heap (-) SetToBag({ e })

\* lines 176-188: the state before the while loop
RECURSIVE SeedOutlets(_, _, _, _)
SeedOutlets(st, altitudes, outs, n) ==
    IF n > Len(outs) THEN st
    ELSE SeedOutlets(
            [ st EXCEPT !.root[outs[n]] = Some(outs[n]),
                        !.ridgestack = heap_push(@, RidgeElement(outs[n],
                                                      altitudes[outs[n]])) ],
            altitudes, outs, n + 1)

remove_lakes_init(nx, num, altitudes, outs) ==
    SeedOutlets([ root |-> [ i \in 0..(num - 1) |-> None ],
                  ridgestack |-> EmptyBag,
                  visited |-> [ i \in 0..(num - 1) |-> FALSE ],
                  next |-> nx ],
                altitudes, outs, 1)

\* a reversal that hangs the root of the lake on i and leaves the chain alone
RECURSIVE FlipFlowAtRoot(_, _, _)
FlipFlowAtRoot(nx, k, nk) ==
    IF nx[k] # k
    THEN FlipFlowAtRoot(nx, nx[k], nk)
    ELSE [nx EXCEPT ![k] = nk]

\* a reversal that flips the single edge j -> i and leaves the chain alone
SingleEdgeFlip(nx, k, nk) == [nx EXCEPT ![k] = nk]

\* a reversal that stops at the former root and leaves its pointer alone
RECURSIVE FlipFlowKeepRoot(_, _, _)
FlipFlowKeepRoot(nx, k, nk) ==
    IF nx[k] # k
    THEN FlipFlowKeepRoot([nx EXCEPT ![k] = nk], nx[k], k)
    ELSE nx

\* lines 208-221: the pointer reversal loop
RECURSIVE FlipFlow(_, _, _)
FlipFlow(nx, k, nk) ==
    IF nx[k] # k
    THEN FlipFlow([nx EXCEPT ![k] = nk], nx[k], k)
    ELSE [nx EXCEPT ![k] = nk]

\* a closure that records the reversed lake as rooted at j
RECURSIVE ExpandNeighborsRootedAtJ(_, _, _, _, _, _)
ExpandNeighborsRootedAtJ(st, altitudes, adj, sr, i, n) ==
    IF n > Len(adj) THEN st
    ELSE LET j == adj[n][1]
             distance == adj[n][2]
             lake == st.root[sr[j]] = None
             flipped == IF lake
                        THEN [ st EXCEPT !.next = FlipFlow(st.next, j, i),
                                         !.root[sr[j]] = Some(j) ]
                        ELSE st
             pushed == [ flipped EXCEPT !.ridgestack =
                           heap_push(@, RidgeElement(j,
                               (altitudes[j] - altitudes[i]) * distance)) ]
         IN  IF st.visited[j]
             THEN ExpandNeighborsRootedAtJ(st, altitudes, adj, sr, i, n + 1)
             ELSE ExpandNeighborsRootedAtJ(pushed, altitudes, adj, sr, i, n + 1)

\* lines 201-230: the closure applied to the neighbours of i from position n
RECURSIVE ExpandNeighbors(_, _, _, _, _, _)
ExpandNeighbors(st, altitudes, adj, sr, i, n) ==
    IF n > Len(adj) THEN st
    ELSE LET j == adj[n][1]
             distance == adj[n][2]
             lake == st.root[sr[j]] = None
             flipped == IF lake
                        THEN [ st EXCEPT !.next = FlipFlow(st.next, j, i),
                                         !.root[sr[j]] = st.root[sr[i]] ]
                        ELSE st
             pushed == [ flipped EXCEPT !.ridgestack =
                           heap_push(@, RidgeElement(j,
                               (altitudes[j] - altitudes[i]) * distance)) ]
         IN  IF st.visited[j]
             THEN ExpandNeighbors(st, altitudes, adj, sr, i, n + 1)
             ELSE ExpandNeighbors(pushed, altitudes, adj, sr, i, n + 1)

\* a turn of the while loop without the visited[i] test
remove_lakes_pop_again(st, altitudes, graph, sr, element) ==
    LET i == element.index
        popped == [ st EXCEPT !.ridgestack = heap_remove(@, element) ]
        expanded == ExpandNeighbors(popped, altitudes, neighbors_of(graph, i),
                                    sr, i, 1)
    IN  [ expanded EXCEPT !.root[i] = expanded.root[sr[i]],
                          !.visited[i] = TRUE ]

\* lines 190-233: one turn of the while loop, pop returning element
remove_lakes_pop(st, altitudes, graph, sr, element) ==
    LET i == element.index
        popped == [ st EXCEPT !.ridgestack = heap_remove(@, element) ]
        expanded == ExpandNeighbors(popped, altitudes, neighbors_of(graph, i),
                                    sr, i, 1)
    IN  IF st.visited[i] THEN popped
        ELSE [ expanded EXCEPT !.root[i] = expanded.root[sr[i]],
                               !.visited[i] = TRUE ]

(***************************************************************************)
(* DrainageBasin::construct: the traversal, grown from position i.          *)
(***************************************************************************)
\* an inverse lookup that takes the direction of next the wrong way round
RECURSIVE PushOutflows(_, _, _, _, _)
PushOutflows(traversal, nx, adj, it, n) ==
    IF n > Len(adj) THEN traversal
    ELSE PushOutflows(IF nx[it] = adj[n][1]
                      THEN Append(traversal, adj[n][1]) ELSE traversal,
                      nx, adj, it, n + 1)

RECURSIVE PushInflows(_, _, _, _, _)
PushInflows(traversal, nx, adj, it, n) ==
    IF n > Len(adj) THEN traversal
    ELSE PushInflows(IF nx[adj[n][1]] = it
                     THEN Append(traversal, adj[n][1]) ELSE traversal,
                     nx, adj, it, n + 1)

\* a traversal loop that leaves after its first turn
GrowTraversalOnce(traversal, nx, graph, i) ==
    PushInflows(traversal, nx, neighbors_of(graph, traversal[i]),
                traversal[i], 1)

RECURSIVE GrowTraversal(_, _, _, _)
GrowTraversal(traversal, nx, graph, i) ==
    LET it == traversal[i]
        grown == PushInflows(traversal, nx, neighbors_of(graph, it), it, 1)
    IN  IF i + 1 > Len(grown) THEN grown
        ELSE GrowTraversal(grown, nx, graph, i + 1)

DrainageBasin_construct(outlet, nx, graph) ==
    GrowTraversal(<< outlet >>, nx, graph, 1)

Reverse(s) == [ n \in 1..Len(s) |-> s[Len(s) + 1 - n] ]
\* an upstream iteration that runs from the leaves to the outlet
for_each_upstream_reversed(traversal) == Reverse(traversal)
for_each_upstream(traversal) == traversal
\* an iteration that forgets rev()
for_each_not_reversed(traversal) == traversal
for_each_downstream(traversal) == Reverse(traversal)

(***************************************************************************)
(* Fixed-point arithmetic of generate.                                     *)
(***************************************************************************)
RECURSIVE Pow(_, _)
Pow(x, n) == IF n = 0 THEN 1 ELSE x * Pow(x, n - 1)

\* the greatest r in lo..hi with r^d <= x
RECURSIVE RootSearch(_, _, _, _)
RootSearch(x, d, lo, hi) ==
    IF lo >= hi THEN lo
    ELSE LET mid == (lo + hi + 1) \div 2
         IN  IF Pow(mid, d) <= x THEN RootSearch(x, d, mid, hi)
             ELSE RootSearch(x, d, lo, mid - 1)

\* drainage_areas[i].powf(m_exp), in fixed point
powf_m_exp(area) ==
    LET x == Pow(area, DEFAULT_M_EXP_NUM) * Pow(Resolution, DEFAULT_M_EXP_DEN)
    IN  RootSearch(x, DEFAULT_M_EXP_DEN, 0, x)

\* 1.0 / celerity, in fixed point
inverse(celerity) == (Resolution * Resolution) \div celerity

\* a tangent of the wrong sign
tan_negated(k) ==
    LET t == CASE k = 0 -> 0
               [] k = 1 \/ k = -1 -> (4142 * Resolution) \div 10000
               [] k = 2 \/ k = -2 -> Resolution
               [] k = 3 \/ k = -3 -> (24142 * Resolution) \div 10000
    IN  IF k < 0 THEN t ELSE 0 - t

\* max_slope is an angle k * pi / 8; max_slope.tan() in fixed point
tan(k) ==
    LET t == CASE k = 0 -> 0
               [] k = 1 \/ k = -1 -> (4142 * Resolution) \div 10000
               [] k = 2 \/ k = -2 -> Resolution
               [] k = 3 \/ k = -3 -> (24142 * Resolution) \div 10000
    IN  IF k < 0 THEN 0 - t ELSE t

(***************************************************************************)
(* generate, lines 156-212: the closure applied to one outlet.              *)
(***************************************************************************)
\* lines 172-179 and 194-201
edge_distance(graph, i, j) ==
    LET e == has_edge(graph, i, j) IN IF e[1] THEN e[2] ELSE 1

\* lines 162-167, over order from position n
RECURSIVE AccumulateAreas(_, _, _, _)
AccumulateAreas(areas, nx, order, n) ==
    IF n > Len(order) THEN areas
    ELSE LET i == order[n]
             j == nx[i]
         IN  AccumulateAreas(IF j # i THEN [areas EXCEPT ![j] = @ + areas[i]]
                             ELSE areas,
                             nx, order, n + 1)

\* lines 170-182, over order from position n
RECURSIVE AccumulateResponseTimes(_, _, _, _, _, _, _)
AccumulateResponseTimes(times, areas, params, nx, graph, order, n) ==
    IF n > Len(order) THEN times
    ELSE LET i == order[n]
             j == nx[i]
             distance == edge_distance(graph, i, j)
             celerity == params[i].erodibility * powf_m_exp(areas[i])
         IN  AccumulateResponseTimes(
                 [times EXCEPT ![i] = @ + times[j] + inverse(celerity) * distance],
                 areas, params, nx, graph, order, n + 1)

\* a new_elevation that starts from 0.0 instead of elevations[outlet]
new_elevation_from_zero(elev, times, params, nx, graph, outlet, i) ==
    LET unclamped == params[i].uplift_rate * Max(times[i] - times[outlet], 0)
        j == nx[i]
        distance == edge_distance(graph, i, j)
        max_slope == tan(unwrap(params[i].max_slope))
    IN  IF params[i].max_slope = None THEN unclamped
        ELSE IF unclamped - elev[j] > max_slope * distance
             THEN elev[j] + max_slope * distance
             ELSE unclamped

\* a new_elevation without the max_slope check
new_elevation_unclamped(elev, times, params, nx, graph, outlet, i) ==
    elev[outlet] + params[i].uplift_rate * Max(times[i] - times[outlet], 0)

\* lines 186-207: new_elevation of site i
new_elevation_of(elev, times, params, nx, graph, outlet, i) ==
    LET unclamped == elev[outlet]
                     + params[i].uplift_rate
                       * Max(times[i] - times[outlet], 0)
        j == nx[i]
        distance == edge_distance(graph, i, j)
        max_slope == tan(unwrap(params[i].max_slope))
    IN  IF params[i].max_slope = None THEN unclamped
        ELSE IF unclamped - elev[j] > max_slope * distance
             THEN elev[j] + max_slope * distance
             ELSE unclamped

\* "changed = ..." in place of "changed |= ..."
changed_overwritten(was, new_elevation, old_elevation) ==
    new_elevation # old_elevation

\* line 209
changed_after(was, new_elevation, old_elevation) ==
    was \/ new_elevation # old_elevation

\* lines 185-211, over order from position n; st is [elevations, changed]
RECURSIVE UpdateElevations(_, _, _, _, _, _, _, _)
UpdateElevations(st, times, params, nx, graph, outlet, order, n) ==
    IF n > Len(order) THEN st
    ELSE LET i == order[n]
             new == new_elevation_of(st.elevations, times, params, nx, graph,
                                     outlet, i)
         IN  UpdateElevations(
                 [ elevations |-> [st.elevations EXCEPT ![i] = new],
                   changed |-> changed_after(st.changed, new, st.elevations[i]) ],
                 times, params, nx, graph, outlet, order, n + 1)

\* lines 158-211: the closure for one outlet; st is
\* [elevations, changed, areas, times, traversal]
outlet_closure(st, params, nx, graph, outlet) ==
    LET traversal == DrainageBasin_construct(outlet, nx, graph)
        areas == AccumulateAreas(st.areas, nx,
                                 for_each_downstream(traversal), 1)
        times == AccumulateResponseTimes(st.times, areas, params, nx, graph,
                                         for_each_upstream(traversal), 1)
        upd == UpdateElevations(
                   [ elevations |-> st.elevations, changed |-> st.changed ],
                   times, params, nx, graph, outlet,
                   for_each_upstream(traversal), 1)
    IN  [ elevations |-> upd.elevations, changed |-> upd.changed,
          areas |-> areas, times |-> times, traversal |-> traversal ]

\* lines 157-212: outlets.iter().for_each from position n
RECURSIVE for_each_outlet(_, _, _, _, _, _)
for_each_outlet(st, params, nx, graph, outs, n) ==
    IF n > Len(outs) THEN st
    ELSE for_each_outlet(outlet_closure(st, params, nx, graph, outs[n]),
                         params, nx, graph, outs, n + 1)

(***************************************************************************)
(* Inputs: models (the Model trait: num, areas, graph, default_outlets)     *)
(* and parameter vectors.                                                  *)
(***************************************************************************)
\* a Vec written as a sequence, indexed from 0
Vec(s) == [ i \in 0..(Len(s) - 1) |-> s[i + 1] ]
VecLen(v) == Cardinality(DOMAIN v)

\* a chain 0 - 1 - 2 - 3
PathGraph ==
    Vec(<< << <<1, 1>> >>,
           << <<0, 1>>, <<2, 2>> >>,
           << <<1, 2>>, <<3, 1>> >>,
           << <<2, 1>> >> >>)

\* two triangles 0-1-2 and 0-2-3 sharing the edge 0-2
KiteGraph ==
    Vec(<< << <<2, 3>>, <<1, 2>>, <<3, 2>> >>,
           << <<0, 2>>, <<2, 2>> >>,
           << <<0, 3>>, <<1, 2>>, <<3, 2>> >>,
           << <<2, 2>>, <<0, 2>> >> >>)

\* a ring 0-1-2 around the interior site 3
RingGraph ==
    Vec(<< << <<1, 3>>, <<2, 3>>, <<3, 2>> >>,
           << <<0, 3>>, <<2, 3>>, <<3, 2>> >>,
           << <<0, 3>>, <<1, 3>>, <<3, 2>> >>,
           << <<0, 2>>, <<1, 2>>, <<2, 2>> >> >>)

Model(graph, areas, default_outlets) ==
    [ graph |-> graph, areas |-> Vec(areas), default_outlets |-> default_outlets ]

Models ==
    { Model(PathGraph, <<1, 2, 1, 3>>, << 0 >>),
      Model(PathGraph, <<1, 2, 1, 3>>, << >>),
      Model(KiteGraph, <<2, 1, 2, 1>>, << 3, 1 >>),
      Model(RingGraph, <<1, 1, 1, 3>>, << 0, 1, 2 >>) }

num_of(m) == VecLen(m.graph)

TopographicalParameters(base_elevation, erodibility, uplift_rate, is_outlet, max_slope) ==
    [ base_elevation |-> base_elevation, erodibility |-> erodibility,
      uplift_rate |-> uplift_rate, is_outlet |-> is_outlet,
      max_slope |-> max_slope ]

\* set_base_elevation(0.0) and set_base_elevation(1.0)
BaseElevations == { 0, Resolution }
\* which sites set_is_outlet(true)
OutletFlags == { {}, {0}, {1, 3} }
\* one uplift rate and one max_slope for all sites
UpliftRates == { 0, 1 }
MaxSlopes == { None, Some(0), Some(1) }
SiteCounts == { num_of(m) : m \in Models }

ParameterVectors ==
    { [ i \in 0..(n - 1) |->
          TopographicalParameters(base[i], 1 + (i % 2), u, i \in flags, ms) ] :
        <<n, base>> \in UNION { { <<k, b>> : b \in [ 0..(k - 1) -> BaseElevations ] } :
                                k \in SiteCounts },
        flags \in OutletFlags, u \in UpliftRates, ms \in MaxSlopes }

\* vectors of a length that is no model's site count
ShortParameterVectors ==
    { [ i \in 0..(n - 1) |-> TopographicalParameters(0, 1, 1, FALSE, None) ] :
        n \in { k - 1 : k \in SiteCounts } \ SiteCounts }

\* vectors whose erodibility is negative: set_erodibility(-1.0)
NegativeErodibilityVectors ==
    { [ i \in 0..(n - 1) |->
          TopographicalParameters(0, 0 - 1, 1, i \in flags, None) ] :
        n \in SiteCounts, flags \in OutletFlags }

\* rng.gen::<f64>() * f64::EPSILON for each site: nothing, or one unit
Noises(num) == { [ i \in 0..(num - 1) |-> (i * s) % 2 ] : s \in { 0, 1 } }

Steps == 0..MaxIteration

(***************************************************************************)
(* TerrainGenerator: the builder.  Each setter is taken at most once (a     *)
(* second call only overwrites the first).                                  *)
(***************************************************************************)
loop_vars == << outlets, elevations, step, changed, next, subroot, root,
                ridgestack, visited, drainage_areas, response_times, oi,
                traversals, initial, iterations, carved, fields, stop >>

Init ==
    /\ model = None
    /\ parameters = None
    /\ max_iteration = None
    /\ pc = "builder"
    /\ result = None
    /\ outlets = << >>
    /\ elevations = << >>
    /\ step = 0
    /\ changed = FALSE
    /\ next = << >>
    /\ subroot = << >>
    /\ root = << >>
    /\ ridgestack = EmptyBag
    /\ visited = << >>
    /\ drainage_areas = << >>
    /\ response_times = << >>
    /\ oi = 0
    /\ traversals = << >>
    /\ initial = << >>
    /\ iterations = 0
    /\ carved = FALSE
    /\ fields = << >>
    /\ stop = "none"

set_model ==
    /\ pc = "builder"
    /\ model = None
    /\ \E m \in Models : model' = Some(m)
    /\ UNCHANGED << parameters, max_iteration, pc, result, loop_vars >>

set_parameters ==
    /\ pc = "builder"
    /\ parameters = None
    /\ \E p \in ParameterVectors \cup ShortParameterVectors
                  \cup NegativeErodibilityVectors :
           parameters' = Some(p)
    /\ UNCHANGED << model, max_iteration, pc, result, loop_vars >>

set_max_iteration ==
    /\ pc = "builder"
    /\ max_iteration = None
    /\ \E n \in Steps : max_iteration' = Some(n)
    /\ UNCHANGED << model, parameters, pc, result, loop_vars >>

(***************************************************************************)
(* generate, lines 95-146: validation, outlets, initial elevations.         *)
(***************************************************************************)
Err(e) == [ tag |-> "Err", error |-> e ]
\* Ok(model.create_terrain_from_result(&elevations))
Ok(altitudes) == [ tag |-> "Ok", altitudes |-> altitudes ]

\* a validation that looks at the parameters before the model
validate_parameters_first(m, p) ==
    IF p = None THEN Some("ParametersNotSet")
    ELSE IF m = None THEN Some("ModelNotSet")
    ELSE IF VecLen(unwrap(p)) # num_of(unwrap(m))
         THEN Some("InvalidNumberOfParameters")
    ELSE None

\* lines 96-121: the error returned, or None
validate(m, p) ==
    IF m = None THEN Some("ModelNotSet")
    ELSE IF p = None THEN Some("ParametersNotSet")
    ELSE IF VecLen(unwrap(p)) # num_of(unwrap(m))
         THEN Some("InvalidNumberOfParameters")
    ELSE None

\* the indices 0..num-1, ascending, that satisfy the flag
RECURSIVE FlaggedFrom(_, _, _)
FlaggedFrom(params, i, num) ==
    IF i >= num THEN << >>
    ELSE (IF params[i].is_outlet THEN << i >> ELSE << >>)
         \o FlaggedFrom(params, i + 1, num)

\* an outlet list that appends the default outlets to the flagged ones
outlets_mixed(params, default_outlets) ==
    FlaggedFrom(params, 0, VecLen(params)) \o default_outlets

\* lines 125-137
resolve_outlets(params, default_outlets) ==
    LET flagged == FlaggedFrom(params, 0, VecLen(params))
    IN  IF flagged = << >> THEN default_outlets ELSE flagged

generate_error ==
    /\ pc = "builder"
    /\ validate(model, parameters) # None
    /\ result' = Err(unwrap(validate(model, parameters)))
    /\ pc' = "done"
    /\ UNCHANGED << model, parameters, max_iteration, loop_vars >>

generate_start ==
    /\ pc = "builder"
    /\ validate(model, parameters) = None
    /\ LET m == unwrap(model)
           params == unwrap(parameters)
       IN  /\ outlets' = resolve_outlets(params, m.default_outlets)
           /\ \E noise \in Noises(num_of(m)) :
                  elevations' = [ i \in 0..(num_of(m) - 1) |->
                                    params[i].base_elevation + noise[i] ]
    /\ initial' = elevations'
    /\ step' = 0
    /\ pc' = "loop"
    /\ UNCHANGED << model, parameters, max_iteration, result, changed, next,
                    subroot, root, ridgestack, visited, drainage_areas,
                    response_times, oi, traversals, iterations, carved,
                    fields, stop >>

(***************************************************************************)
(* generate, lines 148-154, and StreamTree::construct, lines 63-84.         *)
(***************************************************************************)
graph_now == unwrap(model).graph
num_now == num_of(unwrap(model))

construct_stream_tree ==
    /\ pc = "loop"
    /\ iterations < MaxLoop
    /\ LET is_outlet == create_outlet_table(Sites(graph_now), outlets)
           nx == construct_initial_stream_tree(elevations, graph_now, is_outlet)
           found == find_roots_with_lakes(num_now, is_outlet, nx)
           st == remove_lakes_init(nx, num_now, elevations, outlets)
       IN  /\ subroot' = found[1]
           /\ carved' = found[2]
           /\ IF ~found[2]
              THEN /\ next' = nx
                   /\ pc' = "basins"
                   /\ UNCHANGED << root, ridgestack, visited >>
              ELSE /\ next' = st.next
                   /\ root' = st.root
                   /\ ridgestack' = st.ridgestack
                   /\ visited' = st.visited
                   /\ pc' = "carve"
    /\ drainage_areas' = unwrap(model).areas
    /\ response_times' = [ i \in 0..(num_now - 1) |-> 0 ]
    /\ changed' = FALSE
    /\ oi' = 1
    /\ traversals' = << >>
    /\ iterations' = iterations + 1
    /\ fields' = Append(fields, elevations)
    /\ UNCHANGED << model, parameters, max_iteration, result, outlets,
                    elevations, step, initial, stop >>

(***************************************************************************)
(* remove_lakes_from_stream_tree, lines 190-235: one turn of the while      *)
(* loop, and its end.                                                       *)
(***************************************************************************)
remove_lakes_step ==
    /\ pc = "carve"
    /\ ridgestack # EmptyBag
    /\ \E element \in PopCandidates(ridgestack) :
         LET st == remove_lakes_pop(
                      [ root |-> root, ridgestack |-> ridgestack,
                        visited |-> visited, next |-> next ],
                      elevations, graph_now, subroot, element)
         IN  /\ root' = st.root
             /\ ridgestack' = st.ridgestack
             /\ visited' = st.visited
             /\ next' = st.next
    /\ UNCHANGED << model, parameters, max_iteration, pc, result, outlets,
                    elevations, step, changed, subroot, drainage_areas,
                    response_times, oi, traversals, initial, iterations,
                    carved, fields, stop >>

remove_lakes_return ==
    /\ pc = "carve"
    /\ ridgestack = EmptyBag
    /\ pc' = "basins"
    /\ UNCHANGED << model, parameters, max_iteration, result, outlets,
                    elevations, step, changed, next, subroot, root,
                    ridgestack, visited, drainage_areas, response_times, oi,
                    traversals, initial, iterations, carved, fields,
                    stop >>

(***************************************************************************)
(* generate, lines 157-212: the closure of outlets.iter().for_each for the  *)
(* outlet at position oi.                                                   *)
(***************************************************************************)
process_basin ==
    /\ pc = "basins"
    /\ oi <= Len(outlets)
    /\ LET st == outlet_closure(
                     [ elevations |-> elevations, changed |-> changed,
                       areas |-> drainage_areas, times |-> response_times,
                       traversal |-> << >> ],
                     unwrap(parameters), next, graph_now, outlets[oi])
       IN  /\ traversals' = Append(traversals, st.traversal)
           /\ drainage_areas' = st.areas
           /\ response_times' = st.times
           /\ elevations' = st.elevations
           /\ changed' = st.changed
    /\ oi' = oi + 1
    /\ UNCHANGED << model, parameters, max_iteration, pc, result, outlets,
                    step, next, subroot, root, ridgestack, visited, initial,
                    iterations, carved, fields, stop >>

(***************************************************************************)
(* generate, lines 214-229: the end of the loop body and the return.        *)
(***************************************************************************)
\* which break is taken with the step counter already incremented: or "none"
loop_exit(was_changed, new_step, max_it) ==
    IF ~was_changed THEN "stable"
    ELSE IF max_it # None /\ new_step >= unwrap(max_it) THEN "max_iteration"
    ELSE "none"

end_of_iteration ==
    /\ pc = "basins"
    /\ oi > Len(outlets)
    /\ LET exit == loop_exit(changed, step + 1, max_iteration)
       IN  /\ stop' = exit
           /\ step' = IF changed THEN step + 1 ELSE step
           /\ IF exit = "none"
              THEN /\ pc' = "loop"
                   /\ UNCHANGED result
              ELSE /\ pc' = "done"
                   /\ result' = Ok(elevations)
    /\ UNCHANGED << model, parameters, max_iteration, outlets, elevations,
                    changed, next, subroot, root, ridgestack, visited,
                    drainage_areas, response_times, oi, traversals, initial,
                    iterations, carved, fields >>

(***************************************************************************)
(* StreamTree::construct and generate as functions of their arguments, for  *)
(* the properties that relate two calls.  Where Ord for RidgeElement does   *)
(* not decide which of several entries pop returns, the value is None       *)
(* (construct) or Undecided (generate).                                     *)
(***************************************************************************)
\* remove_lakes_from_stream_tree, lines 190-235: the while loop to its end
RECURSIVE remove_lakes_loop(_, _, _, _)
remove_lakes_loop(st, altitudes, graph, sr) ==
    IF st.ridgestack = EmptyBag THEN Some(st.next)
    ELSE LET top == PopCandidates(st.ridgestack)
         IN  IF Cardinality(top) > 1 THEN None
             ELSE remove_lakes_loop(
                      remove_lakes_pop(st, altitudes, graph, sr,
                                       CHOOSE e \in top : TRUE),
                      altitudes, graph, sr)

\* StreamTree::construct, lines 63-91: Some(next) or None
StreamTree_construct(altitudes, graph, outs) ==
    LET num == VecLen(graph)
        is_outlet == create_outlet_table(Sites(graph), outs)
        nx == construct_initial_stream_tree(altitudes, graph, is_outlet)
        found == find_roots_with_lakes(num, is_outlet, nx)
    IN  IF ~found[2] THEN Some(nx)
        ELSE remove_lakes_loop(remove_lakes_init(nx, num, altitudes, outs),
                               altitudes, graph, found[1])

Undecided == [ tag |-> "Undecided" ]
Running == [ tag |-> "Running" ]

\* generate, lines 148-229: the loop from the field elev with the counter at
\* stp, followed for at most fuel iterations (Running beyond that)
RECURSIVE generate_loop(_, _, _, _, _, _, _)
generate_loop(m, params, outs, elev, max_it, stp, fuel) ==
    IF fuel = 0 THEN Running
    ELSE LET tree == StreamTree_construct(elev, m.graph, outs)
             st == for_each_outlet(
                       [ elevations |-> elev, changed |-> FALSE,
                         areas |-> m.areas,
                         times |-> [ i \in Sites(m.graph) |-> 0 ],
                         traversal |-> << >> ],
                       params, unwrap(tree), m.graph, outs, 1)
         IN  IF tree = None THEN Undecided
             ELSE IF loop_exit(st.changed, stp + 1, max_it) # "none"
                  THEN Ok(st.elevations)
                  ELSE generate_loop(m, params, outs, st.elevations, max_it,
                                     stp + 1, fuel - 1)

\* generate, lines 95-230, of a generator with the fields m, p and max_it,
\* its rng giving the perturbation noise
generate(m, p, noise, max_it) ==
    IF validate(m, p) # None THEN Err(unwrap(validate(m, p)))
    ELSE LET params == unwrap(p)
         IN  generate_loop(unwrap(m), params,
                 resolve_outlets(params, unwrap(m).default_outlets),
                 [ i \in Sites(unwrap(m).graph) |->
                     params[i].base_elevation + noise[i] ],
                 max_it, 0, MaxLoop)

Next ==
    \/ set_model
    \/ set_parameters
    \/ set_max_iteration
    \/ generate_error
    \/ generate_start
    \/ construct_stream_tree
    \/ remove_lakes_step
    \/ remove_lakes_return
    \/ process_basin
    \/ end_of_iteration

Spec == Init /\ [][Next]_vars

(***************************************************************************)
(* TreeSpec: generate at the head of its loop (line 148) for every          *)
(* elevation field over 0..MaxAlt, as left by parameters whose base         *)
(* elevations are that field; then the loop as in Spec.                     *)
(***************************************************************************)
TreeParameterVectors(n) ==
    { [ i \in 0..(n - 1) |->
          TopographicalParameters(base[i], 1 + (i % 2), 1, i \in flags, None) ] :
        base \in [ 0..(n - 1) -> 0..MaxAlt ], flags \in OutletFlags }

TreeInit ==
    /\ \E m \in Models : \E p \in TreeParameterVectors(num_of(m)) :
         /\ model = Some(m)
         /\ parameters = Some(p)
         /\ outlets = resolve_outlets(p, m.default_outlets)
         /\ elevations = [ i \in 0..(num_of(m) - 1) |-> p[i].base_elevation ]
    /\ initial = elevations
    /\ max_iteration = None
    /\ pc = "loop"
    /\ result = None
    /\ step = 0
    /\ changed = FALSE
    /\ next = << >>
    /\ subroot = << >>
    /\ root = << >>
    /\ ridgestack = EmptyBag
    /\ visited = << >>
    /\ drainage_areas = << >>
    /\ response_times = << >>
    /\ oi = 0
    /\ traversals = << >>
    /\ iterations = 0
    /\ carved = FALSE
    /\ fields = << >>
    /\ stop = "none"

TreeNext ==
    \/ construct_stream_tree
    \/ remove_lakes_step
    \/ remove_lakes_return
    \/ process_basin
    \/ end_of_iteration

TreeSpec == TreeInit /\ [][TreeNext]_vars

(***************************************************************************)
(* SolveSpec: generate at the head of its loop (line 148) with one uplift   *)
(* rate, no max_slope, uniform or alternating erodibility, one or two       *)
(* flagged outlets and base elevations that are multiples of 1.0 up to      *)
(* MaxAlt; then the loop as in Spec.                                        *)
(***************************************************************************)
SolveFlags == { {0}, {1}, {0, 3} }

SolveParameterVectors(n) ==
    { [ i \in 0..(n - 1) |->
          TopographicalParameters(base[i] * Resolution, 1 + ((i * odd) % 2), 1, i \in flags, None) ] :
        base \in [ 0..(n - 1) -> 0..MaxAlt ], flags \in SolveFlags,
        odd \in { 0, 1 } }

SolveInit ==
    /\ \E m \in Models : \E p \in SolveParameterVectors(num_of(m)) :
         /\ model = Some(m)
         /\ parameters = Some(p)
         /\ outlets = resolve_outlets(p, m.default_outlets)
         /\ elevations = [ i \in 0..(num_of(m) - 1) |-> p[i].base_elevation ]
    /\ initial = elevations
    /\ max_iteration = None
    /\ pc = "loop"
    /\ result = None
    /\ step = 0
    /\ changed = FALSE
    /\ next = << >>
    /\ subroot = << >>
    /\ root = << >>
    /\ ridgestack = EmptyBag
    /\ visited = << >>
    /\ drainage_areas = << >>
    /\ response_times = << >>
    /\ oi = 0
    /\ traversals = << >>
    /\ iterations = 0
    /\ carved = FALSE
    /\ fields = << >>
    /\ stop = "none"

SolveSpec == SolveInit /\ [][TreeNext]_vars

(***************************************************************************)
(* Vocabulary of the properties.                                           *)
(***************************************************************************)
SitesNow == 0..(num_now - 1)
OutletSet == SeqSet(outlets)

\* the site reached from i after n hops along nx
RECURSIVE Hop(_, _, _)
Hop(nx, i, n) == IF n = 0 THEN i ELSE Hop(nx, nx[i], n - 1)

\* the sites on the flow path of i, i included
FlowPath(nx, i) == { Hop(nx, i, n) : n \in 0..num_now }

\* the sites upstream of i, i included
Upstream(nx, i) == { x \in SitesNow : i \in FlowPath(nx, x) }

RECURSIVE SumOver(_, _)
SumOver(S, f) ==
    IF S = {} THEN 0
    ELSE LET x == CHOOSE y \in S : TRUE IN f[x] + SumOver(S \ { x }, f)

\* StreamTree::construct has returned the flow assignment of this iteration
TreeBuilt == pc = "basins"

\* C1: with a non-empty outlet set, the flow assignment StreamTree::construct
\* returns has a self-loop exactly at the outlets, and the flow path of every
\* site reaches an outlet within num hops.
C1_ForestRootedAtOutlets ==
    (TreeBuilt /\ outlets # << >>) =>
        \A i \in SitesNow :
            /\ (next[i] = i) <=> (i \in OutletSet)
            /\ Hop(next, i, num_now) \in OutletSet

\* C1 witness: lake removal reversed a chain of at least two sites
C1_Witness ==
    /\ TreeBuilt /\ carved /\ outlets # << >>
    /\ Cardinality({ i \in SitesNow :
           next[i] # i /\ next[next[i]] # next[i]
           /\ elevations[i] < elevations[next[i]]
           /\ elevations[next[i]] < elevations[next[next[i]]] }) >= 1

\* generate has returned
Returned == pc = "done"

\* C2: when the resolved outlet set is empty, generate returns an error and
\* runs no iteration.
C2_EmptyOutletsIsError ==
    (Returned /\ validate(model, parameters) = None
     /\ resolve_outlets(unwrap(parameters), unwrap(model).default_outlets) = << >>)
        => (result.tag = "Err" /\ iterations = 0)

\* C3: generate returns ModelNotSet without a model, whatever the parameters,
\* ParametersNotSet with a model and no parameters, InvalidNumberOfParameters
\* when the parameters are not one per site; it then runs no iteration and
\* holds no elevation field.
C3_ConfigurationErrors ==
    LET invalid == \/ model = None
                   \/ parameters = None
                   \/ VecLen(unwrap(parameters)) # num_now
    IN  /\ invalid => (pc \in { "builder", "done" } /\ iterations = 0
                       /\ elevations = << >>)
        /\ (Returned /\ model = None) => result = Err("ModelNotSet")
        /\ (Returned /\ model # None /\ parameters = None)
               => result = Err("ParametersNotSet")
        /\ (Returned /\ model # None /\ parameters # None
            /\ VecLen(unwrap(parameters)) # num_now)
               => result = Err("InvalidNumberOfParameters")

\* C3 witness: generate was called with parameters and no model
C3_Witness ==
    Returned /\ model = None /\ parameters # None
    /\ result = Err("ModelNotSet")

\* C4: a return forced by max_iteration while the last iteration changed an
\* elevation carries the last field and a signal that it did not converge.
C4_NonConvergenceSignalled ==
    (Returned /\ stop = "max_iteration" /\ changed) =>
        /\ result.altitudes = elevations
        /\ "converged" \in DOMAIN result
        /\ result.converged = FALSE

\* C5: with max_iteration set to n, generate executes at most n iterations.
C5_AtMostMaxIterations ==
    max_iteration # None => iterations <= unwrap(max_iteration)

\* the elevation field one more loop body leaves, from the field elev and
\* the flow assignment nx
OneMoreIteration(elev, nx) ==
    for_each_outlet([ elevations |-> elev, changed |-> FALSE,
                      areas |-> unwrap(model).areas,
                      times |-> [ i \in SitesNow |-> 0 ],
                      traversal |-> << >> ],
                    unwrap(parameters), nx, graph_now, outlets, 1).elevations

\* C6: without max_iteration, generate returns only through the break of an
\* iteration that changed nothing, and the returned field is a fixed point:
\* its flow assignment is steepest descent on the returned field (with the
\* lakes of that field removed), and one more iteration with it leaves every
\* elevation as returned.
C6_ReturnsFixedPoint ==
    (Returned /\ result.tag = "Ok" /\ max_iteration = None) =>
        /\ stop = "stable"
        /\ subroot = find_roots_with_lakes(num_now,
                        create_outlet_table(Sites(graph_now), outlets),
                        construct_initial_stream_tree(result.altitudes,
                            graph_now,
                            create_outlet_table(Sites(graph_now), outlets)))[1]
        /\ ~carved => next = construct_initial_stream_tree(result.altitudes,
                                 graph_now,
                                 create_outlet_table(Sites(graph_now), outlets))
        /\ OneMoreIteration(result.altitudes, next) = result.altitudes

\* C6 witness: a return without max_iteration after several iterations that
\* moved the field away from the initial one
C6_Witness ==
    /\ Returned /\ result.tag = "Ok" /\ max_iteration = None
    /\ iterations >= 3
    /\ \E i \in SitesNow : result.altitudes[i] # initial[i]

\* C7: every traversal starts with its outlet, every other site of it comes
\* strictly after the site it flows into, and every site that flows into a
\* site of the traversal comes strictly after that site (so the reversed
\* order visits a site only after all its inflows).
C7_TraversalIsTopological ==
    (pc \in { "basins", "done" }) =>
        \A k \in 1..Len(traversals) :
            LET t == traversals[k] IN
            /\ t[1] = outlets[k]
            /\ \A n \in 2..Len(t) :
                   \E m \in 1..(n - 1) : t[m] = next[t[n]]
            /\ \A n \in 1..Len(t) : \A x \in SitesNow :
                   (next[x] = t[n] /\ x # t[n]) =>
                       \E m \in (n + 1)..Len(t) : t[m] = x

\* C7 witness: a traversal through a chain of three sites
C7_Witness ==
    /\ pc = "basins"
    /\ \E k \in 1..Len(traversals) : \E n \in 1..Len(traversals[k]) :
           LET i == traversals[k][n]
           IN  next[i] # i /\ next[next[i]] # next[i]

\* C8: the traversal of an outlet holds exactly the sites whose flow path
\* ends at that outlet, each once; traversals of distinct outlets are
\* disjoint.
C8_BasinIsExactAndDisjoint ==
    (pc \in { "basins", "done" }) =>
        \A k \in 1..Len(traversals) :
            LET t == traversals[k] IN
            /\ SeqSet(t) = { i \in SitesNow :
                               Hop(next, i, num_now) = outlets[k] }
            /\ Cardinality(SeqSet(t)) = Len(t)
            /\ \A l \in 1..Len(traversals) :
                   outlets[l] # outlets[k]
                       => SeqSet(t) \cap SeqSet(traversals[l]) = {}

\* C8 witness: two outlets with basins of at least two sites each
C8_Witness ==
    /\ pc = "basins" /\ Len(traversals) >= 2
    /\ Len(traversals[1]) >= 2 /\ Len(traversals[2]) >= 2

\* C9: once a basin is processed, the drainage area of each of its sites is
\* the sum of the cell areas of the sites upstream of it, itself included;
\* once all basins are processed, the outlets' drainage areas add up to the
\* total cell area.
C9_AreaConservation ==
    (pc \in { "basins", "done" } /\ Len(traversals) >= 1) =>
        /\ \A k \in 1..Len(traversals) : \A i \in SeqSet(traversals[k]) :
               drainage_areas[i] = SumOver(Upstream(next, i), unwrap(model).areas)
        /\ (Len(traversals) = Len(outlets)) =>
               SumOver(OutletSet, drainage_areas)
                   = SumOver(SitesNow, unwrap(model).areas)

\* C9 witness: all basins processed, one of them a chain of three sites
C9_Witness ==
    /\ pc = "basins" /\ oi > Len(outlets) /\ Len(outlets) >= 2
    /\ \E i \in SitesNow : next[i] # i /\ next[next[i]] # next[i]

C11_FlaggedOutletAtZero ==
    (Returned /\ result.tag = "Ok") =>
        \A i \in SitesNow :
            unwrap(parameters)[i].is_outlet => result.altitudes[i] = 0

\* the sites whose parameters have is_outlet = true
FlaggedSites == { i \in SitesNow : unwrap(parameters)[i].is_outlet }

\* C15: once generate has resolved its outlets, the outlet list holds exactly
\* the flagged sites, each once, when some site is flagged, and is the
\* model's default outlet list otherwise; and with no flagged site and
\* non-empty default outlets generate returns Ok.
C15_OutletsFlaggedOrDefault ==
    (pc # "builder" /\ validate(model, parameters) = None) =>
        /\ FlaggedSites # {} =>
               /\ OutletSet = FlaggedSites
               /\ Len(outlets) = Cardinality(FlaggedSites)
        /\ FlaggedSites = {} => outlets = unwrap(model).default_outlets
        /\ (Returned /\ FlaggedSites = {}
            /\ unwrap(model).default_outlets # << >>) => result.tag = "Ok"

\* C15 witness: a run with flagged outlets on a model whose default outlets
\* are other sites, and whose elevations moved
C15_Witness ==
    /\ Returned /\ result.tag = "Ok"
    /\ FlaggedSites # {}
    /\ SeqSet(unwrap(model).default_outlets) \ FlaggedSites # {}
    /\ \E i \in SitesNow : elevations[i] # initial[i]

\* next still holds what construct_initial_stream_tree computed from the
\* elevations of this iteration: the fast path has just returned, or lake
\* removal has not expanded a site yet
InitialTreeHeld ==
    \/ pc = "basins" /\ ~carved /\ oi = 1
    \/ pc = "carve" /\ \A i \in SitesNow : ~visited[i]

\* the positions, in the adjacency list of i, of the strictly lower neighbours
LowerNeighbors(i) ==
    { n \in 1..Len(graph_now[i]) : elevations[graph_now[i][n][1]] < elevations[i] }

\* C16: in the steepest-descent assignment every outlet is a self-loop; a
\* non-outlet site without a strictly lower neighbour is a self-loop; any
\* other site flows to a strictly lower neighbour j that maximises
\* (elev[i] - elev[j]) / distance(i, j).
C16_SteepestDescent ==
    InitialTreeHeld =>
        \A i \in SitesNow :
            LET adj == graph_now[i]
                drop(n) == elevations[i] - elevations[adj[n][1]]
            IN  IF i \in OutletSet \/ LowerNeighbors(i) = {}
                THEN next[i] = i
                ELSE \E n \in LowerNeighbors(i) :
                        /\ next[i] = adj[n][1]
                        /\ \A m \in LowerNeighbors(i) :
                               drop(m) * adj[n][2] <= drop(n) * adj[m][2]

\* C16 witness: a site flows to the neighbour of steepest slope while
\* another neighbour lies lower, and an outlet has a strictly lower neighbour
C16_Witness ==
    /\ InitialTreeHeld
    /\ \E i \in SitesNow \ OutletSet : \E n, m \in LowerNeighbors(i) :
           /\ next[i] = graph_now[i][n][1]
           /\ elevations[graph_now[i][m][1]] < elevations[graph_now[i][n][1]]
    /\ \E o \in OutletSet : LowerNeighbors(o) # {}

\* StreamTree::construct has just returned: no basin is processed yet
TreeReturned == pc = "basins" /\ oi = 1

\* the non-outlet self-loops of the flow assignment nx
Lakes(nx) == { i \in SitesNow \ OutletSet : nx[i] = i }

\* C17: StreamTree::construct takes the fast path exactly when the
\* steepest-descent assignment has no non-outlet self-loop.  On the fast path
\* it returns that assignment, which routes every site to an outlet; on the
\* other path, with a non-empty outlet list, what it returns differs from the
\* steepest-descent assignment.
C17_FastPathIffNoLake ==
    LET steepest == construct_initial_stream_tree(elevations, graph_now,
                        create_outlet_table(Sites(graph_now), outlets))
    IN  /\ (pc = "carve" /\ \A i \in SitesNow : ~visited[i]) =>
               (carved /\ Lakes(next) # {})
        /\ TreeReturned =>
               /\ carved <=> Lakes(steepest) # {}
               /\ ~carved => /\ next = steepest
                             /\ Lakes(next) = {}
                             /\ \A i \in SitesNow :
                                    Hop(next, i, num_now) \in OutletSet
               /\ (carved /\ outlets # << >>) => next # steepest

\* C17 witness: the fast path returned a tree with a chain of three sites
\* from a field that is not the initial one
C17_Witness ==
    /\ TreeReturned /\ ~carved /\ elevations # initial
    /\ \E i \in SitesNow : next[i] # i /\ next[next[i]] # next[i]

\* the site a step of the carving loop expands: the one it marks visited
ExpandedNow(i) == ~visited[i] /\ visited'[i]

\* the neighbours j of i whose edge (i, j) the expansion of i reverses: the
\* first unvisited neighbour, in the order of the adjacency list, of each
\* component whose root is not yet connected to an outlet
ReversedAt(i) ==
    { graph_now[i][n][1] : n \in
        { p \in 1..Len(graph_now[i]) :
            LET j == graph_now[i][p][1]
            IN  /\ ~visited[j]
                /\ root[subroot[j]] = None
                /\ \A q \in 1..(p - 1) :
                       subroot[graph_now[i][q][1]] # subroot[j] } }

\* C18: a step of the carving loop that expands i rewrites next only along
\* the former flow paths j = p0 -> p1 -> ... -> pk of the neighbours j it
\* reverses: next[p0] becomes i, next[p(t+1)] becomes p(t), and next of every
\* site on none of these paths is unchanged.
C18_ReversalFrame ==
    [][ pc = "carve" =>
          \A i \in SitesNow : ExpandedNow(i) =>
              \A x \in SitesNow :
                  LET from == { j \in ReversedAt(i) : x \in FlowPath(next, j) }
                  IN  IF from = {} THEN next'[x] = next[x]
                      ELSE \A j \in from :
                             /\ next[Hop(next, j, num_now)]
                                    = Hop(next, j, num_now)
                             /\ IF x = j THEN next'[x] = i
                                ELSE \E p \in FlowPath(next, j) :
                                        p # x /\ next[p] = x /\ next'[x] = p
      ]_vars

\* C18 witness: the carving loop reversed a path of at least two sites: the
\* former root of a lake now flows through a site of its former path
C18_Witness ==
    /\ pc = "carve"
    /\ \E r \in SitesNow \ OutletSet :
           /\ WalkToRoot([ x \in SitesNow |-> None ],
                         construct_initial_stream_tree(elevations, graph_now,
                             create_outlet_table(Sites(graph_now), outlets)),
                         r) = r
           /\ next[r] # r /\ next[next[r]] # next[r]
           /\ next[next[next[r]]] # next[next[r]]
           /\ ~visited[r] /\ ~visited[next[r]]

\* what is left to do in the carving loop: the queued entries, and for every
\* site not yet expanded its own expansion and the entries it may push
CarveMeasure ==
    BagCardinality(ridgestack)
    + SumOver({ x \in SitesNow : ~visited[x] },
              [ x \in SitesNow |-> Len(graph_now[x]) + 1 ])

\* C19: a turn of the carving loop expands at most one site, one that was
\* not visited and had an entry in the queue, and pushes entries for
\* unvisited neighbours of that site only; a turn that pops an entry of a
\* visited site only removes that entry; visited is never reset and every
\* turn brings the loop closer to its end.  When the loop has ended the queue
\* is empty and, with at least one outlet, every site is visited.
C19_EachSiteExpandedOnce ==
    /\ []((TreeBuilt /\ carved) =>
            /\ ridgestack = EmptyBag
            /\ outlets # << >> => \A x \in SitesNow : visited[x])
    /\ [][ (pc = "carve" /\ pc' = "carve") =>
             /\ \A x \in SitesNow : visited[x] => visited'[x]
             /\ Cardinality({ x \in SitesNow : ExpandedNow(x) }) <= 1
             /\ (\A x \in SitesNow : ~ExpandedNow(x)) =>
                    /\ next' = next /\ root' = root
                    /\ ridgestack' \sqsubseteq ridgestack
                    /\ BagCardinality(ridgestack')
                           = BagCardinality(ridgestack) - 1
             /\ \A i \in SitesNow : ExpandedNow(i) =>
                    /\ \E e \in BagToSet(ridgestack) : e.index = i
                    /\ \A e \in BagToSet(ridgestack') :
                           CopiesIn(e, ridgestack') > CopiesIn(e, ridgestack)
                               => /\ ~visited[e.index]
                                  /\ has_edge(graph_now, i, e.index)[1]
             /\ CarveMeasure' < CarveMeasure
       ]_vars

\* C19 witness: the entry about to be popped belongs to a site that is
\* already visited, while other sites are still to be expanded
C19_Witness ==
    /\ pc = "carve"
    /\ \E e \in PopCandidates(ridgestack) : visited[e.index]
    /\ \E x \in SitesNow : ~visited[x]

\* the entry a turn of the carving loop pops: pushes only add copies
PoppedNow(e) == CopiesIn(e, ridgestack') < CopiesIn(e, ridgestack)

\* before the first pop the queue holds one entry per outlet, with the
\* outlet's own elevation as its priority value
QueueSeeded ==
    (pc = "carve" /\ \A x \in SitesNow : ~visited[x]) =>
        /\ BagToSet(ridgestack)
               = { RidgeElement(o, elevations[o]) : o \in OutletSet }
        /\ BagCardinality(ridgestack) = Len(outlets)

\* the site expanded first, when exactly one site is visited
FirstExpanded(x) ==
    pc = "carve" /\ { y \in SitesNow : visited[y] } = { x }

\* C20 as claimed: the queue is seeded with every outlet at its own
\* elevation, every pop returns an entry of greatest priority value, and the
\* outlet expanded first is one of highest elevation.
C20_PopsGreatest ==
    /\ []QueueSeeded
    /\ [](\A x \in SitesNow : FirstExpanded(x) =>
              /\ x \in OutletSet
              /\ \A o \in OutletSet : elevations[x] >= elevations[o])
    /\ [][ (pc = "carve" /\ pc' = "carve") =>
             \A e \in BagToSet(ridgestack) : PoppedNow(e) =>
                 \A o \in BagToSet(ridgestack) : e.diff >= o.diff ]_vars

\* C20 amended: the queue is seeded with every outlet at its own elevation,
\* every pop returns an entry of least priority value, and the outlet
\* expanded first is one of lowest elevation.
C20_PopsLeast ==
    /\ []QueueSeeded
    /\ [](\A x \in SitesNow : FirstExpanded(x) =>
              /\ x \in OutletSet
              /\ \A o \in OutletSet : elevations[x] <= elevations[o])
    /\ [][ (pc = "carve" /\ pc' = "carve") =>
             /\ \E e \in BagToSet(ridgestack) : PoppedNow(e)
             /\ \A e \in BagToSet(ridgestack) : PoppedNow(e) =>
                    \A o \in BagToSet(ridgestack) : e.diff <= o.diff ]_vars

\* C20 witness: the lower of two outlets of different elevation was expanded
\* first and the queue holds entries of different priority values
C20_Witness ==
    /\ \E x \in SitesNow : /\ FirstExpanded(x)
                           /\ \E o \in OutletSet : elevations[x] < elevations[o]
    /\ \E e, o \in BagToSet(ridgestack) : e.diff < o.diff /\ e.index \notin OutletSet

\* what the rng added to the base elevations of this run
Perturbation ==
    [ i \in SitesNow |-> initial[i] - unwrap(parameters)[i].base_elevation ]

\* generate returned through the break of an iteration without change
Converged == Returned /\ result.tag = "Ok" /\ stop = "stable"

\* the run of this behaviour is one in which every pop was decided
Decided ==
    generate(model, parameters, Perturbation, max_iteration) # Undecided

\* parameters with the base elevation of every site raised by c
ShiftedBy(params, c) ==
    [ i \in DOMAIN params |-> [ params[i] EXCEPT !.base_elevation = @ + c ] ]

\* the constants added to the base elevations
Shifts == { MaxAlt * Resolution }

\* C12: when generate converged, generate with the same model, the same
\* perturbation and every base elevation raised by c converges to the same
\* field raised by c.
C12_ShiftEquivariant ==
    (Converged /\ max_iteration = None /\ Decided) =>
        \A c \in Shifts :
            LET shifted == generate(model,
                               Some(ShiftedBy(unwrap(parameters), c)),
                               Perturbation, None)
            IN  shifted.tag = "Ok" =>
                    shifted.altitudes
                        = [ i \in SitesNow |-> result.altitudes[i] + c ]

Abs(x) == IF x < 0 THEN 0 - x ELSE x

\* the largest per-site difference between the fields a and b
MaxChange(a, b) ==
    CHOOSE d \in { Abs(a[i] - b[i]) : i \in DOMAIN a } :
        \A i \in DOMAIN a : Abs(a[i] - b[i]) <= d

\* one outlet at elevation 0, one uplift rate and one erodibility for all
\* sites, no max_slope, no max_iteration
UniformSingleOutlet ==
    /\ Len(outlets) = 1 /\ initial[outlets[1]] = 0
    /\ max_iteration = None
    /\ \A i, j \in SitesNow :
           /\ unwrap(parameters)[i].uplift_rate = unwrap(parameters)[j].uplift_rate
           /\ unwrap(parameters)[i].erodibility = unwrap(parameters)[j].erodibility
           /\ unwrap(parameters)[i].max_slope = None

\* C14: with uniform uplift and erodibility, no max_slope and a single outlet
\* at elevation 0, generate without max_iteration reaches an iteration
\* without change before MaxLoop iterations, and the largest per-site
\* elevation change of an iteration is never greater than that of the
\* iteration before it.
C14_MonotoneConvergence ==
    (UniformSingleOutlet /\ Decided) =>
        /\ pc = "loop" => iterations < MaxLoop
        /\ Returned => (result.tag = "Ok" /\ stop = "stable")
        /\ \A t \in 1..(Len(fields) - 2) :
               MaxChange(fields[t + 1], fields[t + 2])
                   <= MaxChange(fields[t], fields[t + 1])

\* in the last iteration the max_slope of site i replaced its elevation
ClampedSite(i) ==
    LET o == Hop(next, i, num_now)
        p == unwrap(parameters)[i]
    IN  /\ p.max_slope # None
        /\ elevations[i] < elevations[o]
               + p.uplift_rate * Max(response_times[i] - response_times[o], 0)

\* parameters whose base elevations are the field elev
RebasedOn(params, elev) ==
    [ i \in DOMAIN params |-> [ params[i] EXCEPT !.base_elevation = elev[i] ] ]

\* C13: when generate converged with a max_slope that clamps some site,
\* generate with the same model and parameters, the converged elevations as
\* base elevations, returns the converged elevations.
C13_RerunChangesNothing ==
    (Converged /\ max_iteration = None /\ Decided
     /\ \E i \in SitesNow : ClampedSite(i)) =>
        LET rerun == generate(model,
                         Some(RebasedOn(unwrap(parameters), result.altitudes)),
                         Perturbation, None)
        IN  rerun # Undecided => rerun = Ok(result.altitudes)

\* the sites of the basins this iteration has processed so far
ProcessedSites == UNION { SeqSet(traversals[k]) : k \in 1..Len(traversals) }

\* every basin of the iteration is processed
IterationDone ==
    \/ pc = "basins" /\ oi > Len(outlets)
    \/ pc \in { "loop", "done" } /\ iterations >= 1

\* C21: once a basin is processed, every non-outlet site i of it with
\* max_slope set has (elevation[i] - elevation[next[i]]) / distance(i, next[i])
\* <= tan(max_slope[i]), with the elevations as the iteration left them; and
\* with a non-empty outlet list every non-outlet site is in a processed basin
\* when the iteration is done.
C21_SlopeWithinMaxSlope ==
    (pc \in { "basins", "loop", "done" } /\ iterations >= 1) =>
        /\ \A i \in ProcessedSites \ OutletSet :
               LET p == unwrap(parameters)[i]
               IN  p.max_slope # None =>
                       elevations[i] - elevations[next[i]]
                           <= tan(unwrap(p.max_slope))
                              * edge_distance(graph_now, i, next[i])
        /\ (IterationDone /\ outlets # << >>) =>
               SitesNow \ OutletSet \subseteq ProcessedSites

\* C21 witness: an iteration is done in which a site with a positive
\* max_slope was clamped and sits exactly at the greatest slope allowed
C21_Witness ==
    /\ IterationDone /\ pc = "basins"
    /\ \E i \in ProcessedSites \ OutletSet :
           /\ ClampedSite(i)
           /\ tan(unwrap(unwrap(parameters)[i].max_slope)) > 0
           /\ elevations[i] - elevations[next[i]]
                  = tan(unwrap(unwrap(parameters)[i].max_slope))
                    * edge_distance(graph_now, i, next[i])

\* distance(k, next[k]) / (erodibility[k] * drainageArea[k]^m) with the
\* drainage areas as they are now
TravelTime(k) ==
    inverse(unwrap(parameters)[k].erodibility * powf_m_exp(drainage_areas[k]))
        * edge_distance(graph_now, k, next[k])

\* C22: once a basin with outlet o is processed, responseTime[i] -
\* responseTime[o] of each of its sites i is the sum, over the non-outlet
\* sites k on the flow path from i to o, of distance(k, next[k]) /
\* (erodibility[k] * drainageArea[k]^m), with the drainage areas the
\* iteration ends with.
C22_ResponseTimeAlongPath ==
    (pc \in { "basins", "loop", "done" } /\ iterations >= 1) =>
        \A k \in 1..Len(traversals) : \A i \in SeqSet(traversals[k]) :
            response_times[i] - response_times[outlets[k]]
                = SumOver(FlowPath(next, i) \ OutletSet,
                          [ x \in SitesNow |-> TravelTime(x) ])

\* C22 witness: a processed site two hops above its outlet whose path goes
\* through a site that drains more than its own cell
C22_Witness ==
    /\ pc = "basins"
    /\ \E i \in ProcessedSites :
           /\ next[i] # i /\ next[next[i]] # next[i]
           /\ next[next[i]] \in OutletSet
           /\ drainage_areas[next[i]] > unwrap(model).areas[next[i]]
           /\ response_times[i] > response_times[next[i]]
           /\ response_times[next[i]] > response_times[next[next[i]]]

\* C23: when some site has a non-positive erodibility, generate returns an
\* error and runs no iteration.
C23_NonPositiveErodibilityIsError ==
    (Returned /\ validate(model, parameters) = None
     /\ \E i \in SitesNow : unwrap(parameters)[i].erodibility <= 0)
        => (result.tag = "Err" /\ iterations = 0)

\* the positions, in the adjacency list of i, of the strictly lower neighbours
\* of maximal downhill slope
SteepestNeighbors(i) ==
    LET adj == graph_now[i]
        drop(n) == elevations[i] - elevations[adj[n][1]]
    IN  { n \in LowerNeighbors(i) :
            \A m \in LowerNeighbors(i) :
                drop(m) * adj[n][2] <= drop(n) * adj[m][2] }

\* C24: in the steepest-descent assignment, when several strictly lower
\* neighbours of a non-outlet site i share the maximal downhill slope, next[i]
\* is the one of smallest site index, whatever the order of the adjacency
\* list of i.
C24_SteepestTieBySmallestIndex ==
    InitialTreeHeld =>
        \A i \in SitesNow \ OutletSet :
            SteepestNeighbors(i) # {} =>
                \A n \in SteepestNeighbors(i) : next[i] <= graph_now[i][n][1]

\* C25: when several queued carving entries share the best priority, the
\* entry of smallest site index is popped first.
C25_PopTieBySmallestIndex ==
    [][ (pc = "carve" /\ pc' = "carve") =>
          \A e \in BagToSet(ridgestack) : PoppedNow(e) =>
              \A o \in BagToSet(ridgestack) :
                  o.diff = e.diff => e.index <= o.index ]_vars

\* C26: in the flow assignment of StreamTree::construct, during carving and
\* after it, next[i] is i or a graph neighbour of i; hence every processed
\* site without an edge to its next (the fallback distance 1.0 of generate)
\* is an outlet flowing to itself, and the traversal of a basin holds every
\* site that flows into one of its sites.
C26_NextIsSelfOrNeighbor ==
    /\ pc \in { "carve", "basins" } =>
           \A i \in SitesNow :
               next[i] = i \/ has_edge(graph_now, i, next[i])[1]
    /\ pc = "basins" =>
           /\ \A i \in ProcessedSites :
                  ~has_edge(graph_now, i, next[i])[1]
                      => (i \in OutletSet /\ next[i] = i)
           /\ \A k \in 1..Len(traversals) :
                  \A i \in SeqSet(traversals[k]) : \A j \in SitesNow :
                      next[j] = i => j \in SeqSet(traversals[k])

\* C26 witness: after a carving that reversed a chain of two edges, a basin
\* was traversed that holds a site two hops above its outlet
C26_Witness ==
    /\ pc = "basins" /\ carved
    /\ \E j \in SitesNow :
           /\ fields[Len(fields)][j] < fields[Len(fields)][next[j]]
           /\ fields[Len(fields)][next[j]] < fields[Len(fields)][next[next[j]]]
    /\ \E k \in 1..Len(traversals) : \E i \in SeqSet(traversals[k]) :
           next[i] # outlets[k] /\ next[i] # i

\* the steepest-descent assignment of this iteration, before any carving
InitialTree ==
    construct_initial_stream_tree(elevations, graph_now,
        create_outlet_table(Sites(graph_now), outlets))

\* C27: during lake carving next changes only inside components whose root
\* was unresolved and becomes resolved in the same step, and a resolved root
\* is never rewritten, so every lake component is reversed at most once.  The
\* expanded site i belongs to a resolved component, different from that of
\* every neighbour j a reversal starts from; the chain of next from j is then
\* still the steepest-descent chain and ends at the self-loop subroot[j]; the
\* reversed component takes the root of i and drains to where i drains.  No
\* flow path ever closes a cycle.
C27_LakeReversedOnce ==
    /\ [](pc \in { "carve", "basins" } =>
            \A x \in SitesNow :
                next[Hop(next, x, num_now)] = Hop(next, x, num_now))
    /\ [][ (pc = "carve" /\ pc' = "carve") =>
             /\ \A s \in SitesNow : root[s] # None => root'[s] = root[s]
             /\ \A x \in SitesNow : next'[x] # next[x] =>
                    /\ root[subroot[x]] = None
                    /\ root'[subroot[x]] # None
                    /\ \E i \in SitesNow :
                           /\ ExpandedNow(i)
                           /\ \E j \in ReversedAt(i) : subroot[j] = subroot[x]
             /\ \A i \in SitesNow : ExpandedNow(i) =>
                    /\ root[subroot[i]] # None
                    /\ \A j \in ReversedAt(i) :
                           /\ subroot[j] # subroot[i]
                           /\ Hop(next, j, num_now) = subroot[j]
                           /\ next[subroot[j]] = subroot[j]
                           /\ \A x \in FlowPath(next, j) :
                                  next[x] = InitialTree[x]
                           /\ root'[subroot[j]] = root[subroot[i]]
                           /\ \A x \in FlowPath(next, j) :
                                  /\ i \in FlowPath(next', x)
                                  /\ Hop(next', x, num_now)
                                         = Hop(next, i, num_now)
       ]_vars

\* C27 witness: the carving has reversed a chain of at least two sites into
\* a non-outlet site that was itself reversed before, and all sites are
\* expanded
C27_Witness ==
    /\ pc = "carve"
    /\ \A x \in SitesNow : visited[x]
    /\ \E j \in SitesNow \ OutletSet :
           /\ InitialTree[j] # j /\ next[InitialTree[j]] = j
           /\ next[j] \notin OutletSet
           /\ InitialTree[next[j]] # next[next[j]]

\* C28: StreamTree::construct returns the same flow assignment when the same
\* constant is added to every altitude, also when lakes are carved.
C28_ConstructShiftInvariant ==
    TreeReturned =>
        \A c \in Shifts :
            LET plain == StreamTree_construct(elevations, graph_now, outlets)
                raised == StreamTree_construct(
                              [ i \in SitesNow |-> elevations[i] + c ],
                              graph_now, outlets)
            IN  (plain # None /\ raised # None) =>
                    (unwrap(plain) = next /\ unwrap(raised) = next)

\* the parameters the claims on the elevation update assume: uplift_rate
\* >= 0, positive erodibility, max_slope unset or in [0, pi/2)
GentleParameters ==
    \A i \in SitesNow :
        LET p == unwrap(parameters)[i]
        IN  /\ p.uplift_rate >= 0
            /\ p.erodibility > 0
            /\ p.max_slope # None => unwrap(p.max_slope) \in 0..3

\* C29: with such parameters, every site of a processed basin has an
\* elevation greater than or equal to the elevation of the basin's outlet,
\* and after an iteration every site is in a processed basin.
C29_AboveOutlet ==
    (pc \in { "basins", "loop", "done" } /\ iterations >= 1
     /\ GentleParameters) =>
        /\ \A k \in 1..Len(traversals) : \A i \in SeqSet(traversals[k]) :
               elevations[i] >= elevations[outlets[k]]
        /\ (IterationDone /\ outlets # << >>) => ProcessedSites = SitesNow

\* C29 witness: after an iteration, a site with a max_slope of zero that
\* started below its outlet lies at the outlet's elevation
C29_Witness ==
    /\ IterationDone /\ GentleParameters
    /\ \E k \in 1..Len(traversals) : \E i \in SeqSet(traversals[k]) :
           /\ unwrap(parameters)[i].max_slope = Some(0)
           /\ initial[i] < initial[outlets[k]]
           /\ elevations[i] = elevations[outlets[k]]

\* one positive uplift_rate shared by all sites, positive erodibilities, and
\* max_slope unset or strictly positive
SteadyUplift ==
    \A i \in SitesNow :
        LET p == unwrap(parameters)[i]
        IN  /\ p.uplift_rate > 0
            /\ p.uplift_rate = unwrap(parameters)[0].uplift_rate
            /\ p.erodibility > 0
            /\ p.max_slope # None => unwrap(p.max_slope) \in 1..3

\* C30: under such parameters, after every iteration each non-outlet site is
\* strictly higher than its next of that iteration, and from the second
\* iteration on StreamTree::construct flags no lake.
C30_CarvingOnlyInFirstIteration ==
    /\ (IterationDone /\ SteadyUplift) =>
           \A i \in SitesNow \ OutletSet :
               elevations[i] > elevations[next[i]]
    /\ (pc \in { "carve", "basins" } /\ iterations >= 2 /\ SteadyUplift)
           => ~carved

====
